---- MODULE Spec2Model ----
(***************************************************************************)
(* xraycheck: the port pool (lib/port_pool.py), the registry of active     *)
(* xray processes and the shutdown path (lib/signals.py).                   *)
(*                                                                          *)
(* Three specifications share the variables below:                          *)
(*   SpecConfig  the module-level initialisation of _port_pool, over a set  *)
(*               of configured BASE_PORT / MAX_WORKERS values;              *)
(*   SpecPool    callers of take_port / return_port that follow the         *)
(*               one-return-per-take discipline;                            *)
(*   Spec        concurrent probe workers, the signal handler and the       *)
(*               atexit hook.                                               *)
(***************************************************************************)
EXTENDS Integers, Sequences, FiniteSets, TLC

VARIABLES
    BASE_PORT,          \* lib/config.py BASE_PORT, read by port_pool.py:10
    MAX_WORKERS,        \* lib/config.py MAX_WORKERS, read by port_pool.py:10
    phase,              \* "import" | "run" | "exit" | "dead"  (life of the process)
    port_pool,          \* port_pool.py _port_pool: the list of free ports
    active_processes,   \* signals.py:23: list of <<proc, port>>
    interrupted,        \* signals.py:24
    active_lock,        \* signals.py:22 _active_lock: "free" or "main"
    port_lock,          \* port_pool.py:13 _port_lock: "free" or "main"
    wpc, wport, wproc,  \* each worker's position, its port (or None) and its process (0: none)
    alive,              \* the xray processes launched and not yet terminated
    started,            \* number of candidates handed to workers so far
    stack,              \* main thread: frames of signal_handler / cleanup_processes
    signals,            \* the number of signals delivered so far
    drains,             \* history: what each _snapshot_and_clear_active returned
    registered,         \* history: every pair ever passed to register_process
    byWorker,           \* history: pairs whose port the worker's own path returned
    byShutdown,         \* history: pairs whose port cleanup_processes returned
    held,               \* SpecPool: ports taken by callers and not yet given back
    calls,              \* SpecPool: the calls made so far, with their results
    db_file,            \* store.py: the database file exists (with its table notworkers)
    committed,          \* the rows of notworkers that are durable in the file
    conn,               \* the caller's sqlite3 connection: "closed" | "open"
    notworkers,         \* the rows of notworkers as seen through conn
    now,                \* datetime.utcnow(), in ticks since the model's epoch
    flat_file,          \* export_to_flat's target: None, or the text written
    ops,                \* number of store operations called so far
    last,               \* the last store operation: its name, arguments and result
    peak,               \* history: the highest fail_count each key has had in the file
    available_keys,     \* signals.py:25: the descriptors confirmed good so far
    output_path_global, \* signals.py:26: the intended output path (its characters)
    written             \* history: the open(partial_path, 'w') save_partial_results made

vars == <<BASE_PORT, MAX_WORKERS, phase, port_pool, active_processes, interrupted,
          active_lock, port_lock, wpc, wport, wproc, alive, started, stack,
          signals, drains, registered, byWorker, byShutdown, held, calls,
          db_file, committed, conn, notworkers, now, flat_file, ops, last, peak,
          available_keys, output_path_global, written>>

(***************************************************************************)
(* Bounds of the model.                                                     *)
(***************************************************************************)
NumWorkers == 2
MaxProbes == 2
MaxCalls == 6

(***************************************************************************)
(* Program constants.                                                       *)
(***************************************************************************)
MaxPort == 65535

\* Python's None; a value v that is not None is kept as <<v>>
None == << >>

Some(v) == <<v>>

ValueOf(opt) == opt[1]

Workers == 1..NumWorkers

\* signals.py:90-91: the signals signal_handler is installed for; each is delivered
\* at most once, in this order (the handler does not look at signum)
Signals == <<"SIGINT", "SIGTERM">>

\* the probes whose kill_xray_process may raise (by their candidate number)
Unkillable == {1}

(***************************************************************************)
(* Helpers on lists.                                                        *)
(***************************************************************************)
Max(a, b) == IF a >= b THEN a ELSE b

Min(a, b) == IF a <= b THEN a ELSE b

\* Python range(a, b) as a list
Range(a, b) == [i \in 1..(b - a) |-> a + i - 1]

Elems(s) == {s[i] : i \in 1..Len(s)}

Count(s, x) == Cardinality({i \in 1..Len(s) : s[i] = x})

NoDuplicates(s) == \A i, j \in 1..Len(s) : s[i] = s[j] => i = j

(***************************************************************************)
(* port_pool.py:15-36: the initial _port_pool.                              *)
(***************************************************************************)
\* the clamp without its + 1
EffectiveWorkersOffByOne(base) == Max(0, MaxPort - base)

EffectiveWorkers(base) == Max(0, MaxPort - base + 1)

PortPoolInit(base, workers) ==
    LET max_port == base + workers - 1 IN
    IF max_port > MaxPort
    THEN IF EffectiveWorkers(base) <= 0
         THEN << >>
         ELSE Range(base, base + EffectiveWorkers(base))
    ELSE Range(base, base + workers)

(***************************************************************************)
(* port_pool.py:39-50: take_port and return_port, as functions of the list. *)
(***************************************************************************)
\* take_port that reads the last port and leaves it in the list
TakePortKeeps(pool) == pool

\* return_port that loses the port
ReturnPortDropped(pool, port) == pool

TakePortResult(pool) == IF pool = << >> THEN None ELSE Some(pool[Len(pool)])

TakePortPool(pool) == IF pool = << >> THEN pool ELSE SubSeq(pool, 1, Len(pool) - 1)

\* return_port that ignores a port the pool already has
ReturnPortOnce(pool, port) ==
    IF port \in Elems(pool) THEN pool ELSE Append(pool, port)

ReturnPortPool(pool, port) == Append(pool, port)

(***************************************************************************)
(* signals.py:29-50: the registry, as functions of the list.                *)
(***************************************************************************)
RegisterList(ap, proc, port) == Append(ap, <<proc, port>>)

\* list.remove: drops the first occurrence; ValueError is swallowed
UnregisterList(ap, proc, port) ==
    IF \E i \in 1..Len(ap) : ap[i] = <<proc, port>>
    THEN LET i == CHOOSE k \in 1..Len(ap) :
                      /\ ap[k] = <<proc, port>>
                      /\ \A j \in 1..(k - 1) : ap[j] # <<proc, port>>
         IN  SubSeq(ap, 1, i - 1) \o SubSeq(ap, i + 1, Len(ap))
    ELSE ap

SnapshotItems(ap) == ap

\* _snapshot_and_clear_active without its clear()
ClearedKeeps(ap) == ap

ClearedList(ap) == << >>

(***************************************************************************)
(* signals.py:75-86: save_partial_results, as functions.  A path is the     *)
(* list of its characters; the text written is the list of the keys with    *)
(* "LF" between them.                                                       *)
(***************************************************************************)
DotTxt == <<".", "t", "x", "t">>

PartialDotTxt == <<"_", "p", "a", "r", "t", "i", "a", "l">> \o DotTxt

\* Python str.replace(old, new), old not empty: every occurrence, found from the
\* left, none overlapping another
RECURSIVE Replace(_, _, _)
Replace(str, old, new) ==
    IF Len(str) < Len(old) THEN str
    ELSE IF SubSeq(str, 1, Len(old)) = old
         THEN new \o Replace(SubSeq(str, Len(old) + 1, Len(str)), old, new)
         ELSE <<Head(str)>> \o Replace(Tail(str), old, new)

\* signals.py:79
PartialPath(output_path) == Replace(output_path, DotTxt, PartialDotTxt)

\* '\n'.join(keys)
RECURSIVE Join(_)
Join(keys) ==
    IF keys = << >> THEN << >>
    ELSE IF Len(keys) = 1 THEN <<keys[1]>>
    ELSE <<keys[1], "LF">> \o Join(Tail(keys))

\* a save_partial_results that writes whatever the globals hold
ShouldWriteAlways(keys, output_path) == TRUE

\* signals.py:78: if available_keys and output_path_global
ShouldWrite(keys, output_path) == keys # << >> /\ output_path # << >>

\* one open(partial_path, 'w'): what was to be written, and whether open or write
\* raised
Written(path, text, failed) == [path |-> path, text |-> text, failed |-> failed]

(***************************************************************************)
(* The main thread: a stack of frames.  A frame is a running                *)
(* signal_handler or the atexit call of cleanup_processes, with its         *)
(* position and the rest of its local list `items`.                         *)
(***************************************************************************)
Frame(fn, pc, items) == [fn |-> fn, pc |-> pc, items |-> items]

HookFrame == Frame("atexit", "drain", << >>)

Top == stack[Len(stack)]

SetTop(f) == [stack EXCEPT ![Len(stack)] = f]

Running == phase \in {"run", "exit"}

InFrame(pc) == /\ Running
               /\ stack # << >>
               /\ Top.pc = pc

\* where cleanup_processes goes once `items` is what is left of its list
AfterItems(f, items) ==
    IF items # << >> THEN "kill"
    ELSE IF f.fn = "signal_handler" THEN "save" ELSE "done"

(***************************************************************************)
(* notworkers_sqlite/store.py: timestamps.  The clock counts ticks (parts of *)
(* a second); a timestamp is the text strftime(DATETIME_FORMAT) makes of a   *)
(* time, kept as the list of its digits: day number, hour, minute, second,   *)
(* each two digits wide and zero-padded (the date fields %Y-%m-%d are one    *)
(* day number here).  Timestamps are compared as text.                       *)
(***************************************************************************)
TicksPerSecond == 2

SecondsPerDay == 86400

TicksPerDay == SecondsPerDay * TicksPerSecond

\* a number below 100 as two digits
TwoDigits(n) == <<n \div 10, n % 10>>

\* store.py:14, 18, 95: strftime(DATETIME_FORMAT) of a time given in whole seconds
Format(secs) ==
    TwoDigits(secs \div SecondsPerDay) \o TwoDigits((secs % SecondsPerDay) \div 3600)
        \o TwoDigits((secs % 3600) \div 60) \o TwoDigits(secs % 60)

\* store.py:17-18: _utc_now_str() at clock t (strftime drops the part of a second)
UtcNowStr(t) == Format(t \div TicksPerSecond)

\* store.py:94-95: cutoff_str at clock t
CutoffStr(t, max_age_days) ==
    Format((t - max_age_days * TicksPerDay) \div TicksPerSecond)

\* text comparison a < b (SQLite's BINARY collation on TEXT)
LexLess(a, b) ==
    \/ \E i \in 1..Min(Len(a), Len(b)) :
           /\ \A j \in 1..(i - 1) : a[j] = b[j]
           /\ a[i] < b[i]
    \/ /\ Len(a) < Len(b)
       /\ \A j \in 1..Len(a) : a[j] = b[j]

(***************************************************************************)
(* store.py: the table notworkers as a set of rows (the AUTOINCREMENT id,   *)
(* which no operation reads except to name the rows it deletes, is left out) *)
(* and the statements of the store's operations as functions of the table.  *)
(***************************************************************************)
Row(key, raw, first_seen, last_seen, fail_count, source) ==
    [key |-> key, raw |-> raw, first_seen |-> first_seen, last_seen |-> last_seen,
     fail_count |-> fail_count, source |-> source]

\* SQL COALESCE(a, b)
Coalesce(a, b) == IF a # None THEN a ELSE b

HasKey(tbl, key) == \E r \in tbl : r.key = key

\* the INSERT without its ON CONFLICT clause, on a table without UNIQUE(key)
InsertAlways(tbl, key, raw, source, seen_at) ==
    tbl \cup {Row(key, raw, seen_at, seen_at, 1, source)}

\* the upsert whose DO UPDATE counts down
UpsertDecrements(tbl, key, raw, source, seen_at) ==
    IF HasKey(tbl, key)
    THEN {IF r.key = key
          THEN Row(r.key, raw, r.first_seen, seen_at, r.fail_count - 1,
                   Coalesce(source, r.source))
          ELSE r : r \in tbl}
    ELSE tbl \cup {Row(key, raw, seen_at, seen_at, 1, source)}

\* the upsert whose DO UPDATE also sets first_seen
UpsertResetsFirstSeen(tbl, key, raw, source, seen_at) ==
    IF HasKey(tbl, key)
    THEN {IF r.key = key
          THEN Row(key, raw, seen_at, seen_at, r.fail_count + 1,
                   Coalesce(source, r.source))
          ELSE r : r \in tbl}
    ELSE tbl \cup {Row(key, raw, seen_at, seen_at, 1, source)}

\* store.py:63-74: INSERT ... ON CONFLICT(key) DO UPDATE
UpsertStatement(tbl, key, raw, source, seen_at) ==
    IF HasKey(tbl, key)
    THEN {IF r.key = key
          THEN Row(r.key, raw, r.first_seen, seen_at, r.fail_count + 1,
                   Coalesce(source, r.source))
          ELSE r : r \in tbl}
    ELSE tbl \cup {Row(key, raw, seen_at, seen_at, 1, source)}

\* store.py:58-74: upsert_notworker at clock t; seen_at is None or Some(timestamp)
UpsertTable(tbl, key, raw, source, seen_at, t) ==
    IF key = ""
    THEN tbl
    ELSE UpsertStatement(tbl, key, raw, source,
                         IF seen_at = None THEN UtcNowStr(t) ELSE ValueOf(seen_at))

\* the DELETE of expire_old with <= for <
ExpiredOrEqual(tbl, cutoff_str) ==
    {r \in tbl : LexLess(r.last_seen, cutoff_str) \/ r.last_seen = cutoff_str}

\* store.py:96: the rows DELETE ... WHERE last_seen < ? removes
Expired(tbl, cutoff_str) == {r \in tbl : LexLess(r.last_seen, cutoff_str)}

\* the subquery of prune_to_max with ORDER BY last_seen DESC
NewestRows(tbl, to_delete) ==
    {D \in SUBSET tbl :
        /\ Cardinality(D) = to_delete
        /\ \A d \in D : \A r \in tbl \ D : ~LexLess(d.last_seen, r.last_seen)}

\* store.py:113-123: the sets of rows SELECT id ... ORDER BY last_seen ASC LIMIT ? may
\* name (rows with equal last_seen come in an order SQLite is free to choose)
OldestRows(tbl, to_delete) ==
    {D \in SUBSET tbl :
        /\ Cardinality(D) = to_delete
        /\ \A d \in D : \A r \in tbl \ D : ~LexLess(r.last_seen, d.last_seen)}

\* the loop of migrate_from_flat with the existence test made after the upsert
RECURSIVE MigrateLoopTestsAfter(_, _, _, _)
MigrateLoopTestsAfter(tbl, flat, n, t) ==
    IF n = 0
    THEN [tbl |-> tbl, inserted |-> 0, updated |-> 0]
    ELSE LET before == MigrateLoopTestsAfter(tbl, flat, n - 1, t)
             after == UpsertTable(before.tbl, flat[n][1], flat[n][2], Some("flat"),
                                  None, t)
             exists == HasKey(after, flat[n][1])
         IN  [tbl |-> after,
              inserted |-> before.inserted + (IF exists THEN 0 ELSE 1),
              updated |-> before.updated + (IF exists THEN 1 ELSE 0)]

\* store.py:176-185: the loop of migrate_from_flat over the first n entries of
\* normalized_to_full at clock t: the table and the two counters
RECURSIVE MigrateLoop(_, _, _, _)
MigrateLoop(tbl, flat, n, t) ==
    IF n = 0
    THEN [tbl |-> tbl, inserted |-> 0, updated |-> 0]
    ELSE LET before == MigrateLoop(tbl, flat, n - 1, t)
             exists == HasKey(before.tbl, flat[n][1])
         IN  [tbl |-> UpsertTable(before.tbl, flat[n][1], flat[n][2], Some("flat"),
                                  None, t),
              inserted |-> before.inserted + (IF exists THEN 0 ELSE 1),
              updated |-> before.updated + (IF exists THEN 1 ELSE 0)]

\* the keys of the model, in ascending order of their text
Keys == <<"k1", "k2", "k3">>

KeyLess(a, b) ==
    \E i, j \in 1..Len(Keys) : Keys[i] = a /\ Keys[j] = b /\ i < j

\* store.py:209: SELECT ... ORDER BY key, as the list of the rows
SortByKey(tbl) ==
    CHOOSE f \in [1..Cardinality(tbl) -> tbl] :
        /\ \A r \in tbl : \E i \in 1..Cardinality(tbl) : f[i] = r
        /\ \A i, j \in 1..Cardinality(tbl) : i < j => ~KeyLess(f[j].key, f[i].key)

\* a text is the list of its characters; "LF" is the newline
EndsWithNewline(raw) == raw # << >> /\ raw[Len(raw)] = "LF"

\* the write of export_to_flat that never adds the newline
WriteRawOnly(raw) == raw

\* store.py:214-217: what export_to_flat writes for one row
WriteLine(raw) == IF EndsWithNewline(raw) THEN raw ELSE raw \o <<"LF">>

\* store.py:208-218: the text written for the first n rows of the query
RECURSIVE ExportText(_, _)
ExportText(rows, n) ==
    IF n = 0 THEN << >> ELSE ExportText(rows, n - 1) \o WriteLine(rows[n].raw)

\* a call of a store operation, as recorded in `last`: its name, its arguments, what
\* it returned, and the table it was called on
Call(op, args, result, before) ==
    [op |-> op, args |-> args, result |-> result, before |-> before]

\* the highest fail_count each key has had, once the file holds tbl
PeakAfter(tbl) ==
    [key \in Elems(Keys) |->
        IF \E r \in tbl : r.key = key /\ r.fail_count > peak[key]
        THEN CHOOSE n \in {r.fail_count : r \in tbl} :
                 \E r \in tbl : /\ r.key = key
                                /\ r.fail_count = n
                                /\ \A q \in tbl : q.key = key => q.fail_count <= n
        ELSE peak[key]]

\* the clock starts on day 9 of the model's epoch
StartTime == 9 * TicksPerDay

(***************************************************************************)
(* Initial states.                                                          *)
(***************************************************************************)
\* signals.py:25-26: nothing found yet, no output path set
NoResults ==
    /\ available_keys = << >>
    /\ output_path_global = << >>

InitCommon ==
    /\ active_processes = << >>
    /\ interrupted = FALSE
    /\ active_lock = "free"
    /\ port_lock = "free"
    /\ wpc = [w \in Workers |-> "idle"]
    /\ wport = [w \in Workers |-> None]
    /\ wproc = [w \in Workers |-> 0]
    /\ alive = {}
    /\ started = 0
    /\ stack = << >>
    /\ signals = 0
    /\ drains = << >>
    /\ registered = {}
    /\ byWorker = {}
    /\ byShutdown = {}
    /\ held = {}
    /\ calls = << >>
    /\ db_file = FALSE
    /\ committed = {}
    /\ conn = "closed"
    /\ notworkers = {}
    /\ now = StartTime
    /\ flat_file = None
    /\ ops = 0
    /\ last = Call("none", << >>, << >>, {})
    /\ peak = [key \in Elems(Keys) |-> 0]
    /\ written = {}

\* the configurations of the full program: the pool is MAX_WORKERS ports wide
\* unless the range is cut at MaxPort
RunConfigs == {<<MaxPort - 1, NumWorkers>>, <<MaxPort, NumWorkers>>}

Init ==
    /\ \E c \in RunConfigs : BASE_PORT = c[1] /\ MAX_WORKERS = c[2]
    /\ phase = "run"
    /\ port_pool = PortPoolInit(BASE_PORT, MAX_WORKERS)
    /\ InitCommon
    /\ NoResults

(***************************************************************************)
(* The probe workers: check the stop flag, take a port, launch, register,   *)
(* await the result and unregister, give the port back.                     *)
(***************************************************************************)
cfgVars == <<BASE_PORT, MAX_WORKERS>>

resultVars == <<available_keys, output_path_global, written>>

clientVars == <<held, calls>>

storeVars == <<db_file, committed, conn, notworkers, now, flat_file, ops, last,
               peak>>

mainVars == <<stack, signals, drains>>

lockVars == <<active_lock, port_lock>>

\* the driver hands the next candidate to an idle worker (idle workers being alike,
\* to the first of them) unless a stop was requested
CheckStop(w) ==
    /\ phase = "run"
    /\ wpc[w] = "idle"
    /\ \A v \in Workers : v < w => wpc[v] # "idle"
    /\ IF interrupted
       THEN /\ wpc' = [wpc EXCEPT ![w] = "stopped"]
            /\ UNCHANGED <<wproc, started>>
       ELSE /\ started < MaxProbes
            /\ started' = started + 1
            /\ wproc' = [wproc EXCEPT ![w] = started + 1]
            /\ wpc' = [wpc EXCEPT ![w] = "go"]
    /\ UNCHANGED <<cfgVars, resultVars, storeVars, clientVars, mainVars, lockVars, phase, port_pool,
                   active_processes, interrupted, wport, alive, registered,
                   byWorker, byShutdown>>

\* take_port(): None sends the worker back (the candidate is skipped)
TakePort(w) ==
    /\ Running
    /\ wpc[w] = "go"
    /\ port_lock = "free"
    /\ port_pool' = TakePortPool(port_pool)
    /\ IF TakePortResult(port_pool) = None
       THEN /\ wpc' = [wpc EXCEPT ![w] = "idle"]
            /\ wproc' = [wproc EXCEPT ![w] = 0]
            /\ UNCHANGED wport
       ELSE /\ wpc' = [wpc EXCEPT ![w] = "took"]
            /\ wport' = [wport EXCEPT ![w] = TakePortResult(port_pool)]
            /\ UNCHANGED wproc
    /\ UNCHANGED <<cfgVars, resultVars, storeVars, clientVars, mainVars, lockVars, phase,
                   active_processes, interrupted, alive, started, registered,
                   byWorker, byShutdown>>

Launch(w) ==
    /\ Running
    /\ wpc[w] = "took"
    /\ alive' = alive \cup {wproc[w]}
    /\ wpc' = [wpc EXCEPT ![w] = "launched"]
    /\ UNCHANGED <<cfgVars, resultVars, storeVars, clientVars, mainVars, lockVars, phase, port_pool,
                   active_processes, interrupted, wport, wproc, started,
                   registered, byWorker, byShutdown>>

\* register_process(proc, port)
Register(w) ==
    /\ Running
    /\ wpc[w] = "launched"
    /\ active_lock = "free"
    /\ active_processes' = RegisterList(active_processes, wproc[w], ValueOf(wport[w]))
    /\ registered' = registered \cup {<<wproc[w], ValueOf(wport[w])>>}
    /\ wpc' = [wpc EXCEPT ![w] = "running"]
    /\ UNCHANGED <<cfgVars, resultVars, storeVars, clientVars, mainVars, lockVars, phase, port_pool,
                   interrupted, wport, wproc, alive, started, byWorker, byShutdown>>

\* the probe ends (its process has exited, by itself or killed), then
\* unregister_process(proc, port)
Unregister(w) ==
    /\ Running
    /\ wpc[w] = "running"
    /\ active_lock = "free"
    /\ alive' = alive \ {wproc[w]}
    /\ active_processes' = UnregisterList(active_processes, wproc[w], ValueOf(wport[w]))
    /\ wpc' = [wpc EXCEPT ![w] = "unregistered"]
    /\ UNCHANGED <<cfgVars, resultVars, storeVars, clientVars, mainVars, lockVars, phase, port_pool,
                   interrupted, wport, wproc, started, registered, byWorker,
                   byShutdown>>

\* return_port(port)
ReturnPort(w) ==
    /\ Running
    /\ wpc[w] = "unregistered"
    /\ port_lock = "free"
    /\ port_pool' = ReturnPortPool(port_pool, ValueOf(wport[w]))
    /\ byWorker' = byWorker \cup {<<wproc[w], ValueOf(wport[w])>>}
    /\ wpc' = [wpc EXCEPT ![w] = "idle"]
    /\ wport' = [wport EXCEPT ![w] = None]
    /\ wproc' = [wproc EXCEPT ![w] = 0]
    /\ UNCHANGED <<cfgVars, resultVars, storeVars, clientVars, mainVars, lockVars, phase,
                   active_processes, interrupted, alive, started, registered,
                   byShutdown>>

(***************************************************************************)
(* The main thread: signal delivery, signal_handler, cleanup_processes,     *)
(* the atexit hook and the end of the process.                              *)
(***************************************************************************)
workerVars == <<wpc, wport, wproc, started>>

histVars == <<registered, byWorker, byShutdown>>

\* signals.py:53-56, 90-91: SIGINT/SIGTERM runs signal_handler on top of whatever
\* the main thread was doing; its first statement sets the flag
Signal ==
    /\ Running
    /\ signals < Len(Signals)
    /\ signals' = signals + 1
    /\ interrupted' = TRUE
    /\ stack' = Append(stack, Frame("signal_handler", "drain", << >>))
    /\ UNCHANGED <<cfgVars, resultVars, storeVars, clientVars, workerVars, histVars, lockVars, phase,
                   port_pool, active_processes, alive, drains>>

\* signals.py:47-48: with _active_lock: items = list(active_processes)
SnapshotCopy ==
    /\ InFrame("drain")
    /\ active_lock = "free"
    /\ active_lock' = "main"
    /\ stack' = SetTop(Frame(Top.fn, "clear", SnapshotItems(active_processes)))
    /\ UNCHANGED <<cfgVars, resultVars, storeVars, clientVars, workerVars, histVars, phase, port_pool,
                   active_processes, interrupted, port_lock, alive, signals, drains>>

\* signals.py:49-50: active_processes.clear(); return items (the lock is released)
SnapshotClear ==
    /\ InFrame("clear")
    /\ active_processes' = ClearedList(active_processes)
    /\ active_lock' = "free"
    /\ drains' = Append(drains, Top.items)
    /\ stack' = SetTop(Frame(Top.fn, AfterItems(Top, Top.items), Top.items))
    /\ UNCHANGED <<cfgVars, resultVars, storeVars, clientVars, workerVars, histVars, phase, port_pool,
                   interrupted, port_lock, alive, signals>>

\* signals.py:71: kill_xray_process(proc) terminates the process
Kill ==
    /\ InFrame("kill")
    /\ alive' = alive \ {Head(Top.items)[1]}
    /\ stack' = SetTop(Frame(Top.fn, "return", Top.items))
    /\ UNCHANGED <<cfgVars, resultVars, storeVars, clientVars, workerVars, histVars, lockVars, phase,
                   port_pool, active_processes, interrupted, signals, drains>>

\* An exception or SystemExit leaves every frame of the main thread (no frame of
\* signals.py catches it; each `with` releases its lock).  While the program runs
\* the interpreter then exits and calls the atexit hook (signals.py:92); raised
\* under the hook, it ends the hook.
UnwindStack == IF phase = "run" THEN <<HookFrame>> ELSE << >>

Unwind ==
    /\ stack' = UnwindStack
    /\ phase' = "exit"
    /\ active_lock' = "free"
    /\ port_lock' = "free"

\* signals.py:71: kill_xray_process(proc) raises
KillRaises ==
    /\ InFrame("kill")
    /\ Head(Top.items)[1] \in Unkillable
    /\ Unwind
    /\ UNCHANGED <<cfgVars, resultVars, storeVars, clientVars, workerVars, histVars, port_pool,
                   active_processes, interrupted, alive, signals, drains>>

\* signals.py:72, port_pool.py:49-50: with _port_lock: _port_pool.append(port)
ReturnAppend ==
    /\ InFrame("return")
    /\ port_lock = "free"
    /\ port_lock' = "main"
    /\ port_pool' = ReturnPortPool(port_pool, Head(Top.items)[2])
    /\ byShutdown' = byShutdown \cup {Head(Top.items)}
    /\ stack' = SetTop(Frame(Top.fn, "release", Top.items))
    /\ UNCHANGED <<cfgVars, resultVars, storeVars, clientVars, workerVars, phase, active_processes,
                   interrupted, active_lock, alive, signals, drains,
                   registered, byWorker>>

\* return_port returns (the lock is released); signals.py:70: next item
ReturnRelease ==
    /\ InFrame("release")
    /\ port_lock' = "free"
    /\ stack' = SetTop(Frame(Top.fn, AfterItems(Top, Tail(Top.items)), Tail(Top.items)))
    /\ UNCHANGED <<cfgVars, resultVars, storeVars, clientVars, workerVars, histVars, phase, port_pool,
                   active_processes, interrupted, active_lock, alive, signals, drains>>

\* signals.py:59, 75-86: save_partial_results(); an exception of open or write is
\* caught and logged
SavePartial ==
    /\ InFrame("save")
    /\ IF ShouldWrite(available_keys, output_path_global)
       THEN \E failed \in BOOLEAN :
                written' = written \cup {Written(PartialPath(output_path_global),
                                                  Join(available_keys), failed)}
       ELSE written' = written
    /\ stack' = SetTop(Frame(Top.fn, "exit", Top.items))
    /\ UNCHANGED <<cfgVars, available_keys, output_path_global, storeVars, clientVars,
                   workerVars, histVars, lockVars, phase, port_pool,
                   active_processes, interrupted, alive, signals, drains>>

\* signals.py:60: sys.exit(0)
SysExit ==
    /\ InFrame("exit")
    /\ Unwind
    /\ UNCHANGED <<cfgVars, resultVars, storeVars, clientVars, workerVars, histVars, port_pool,
                   active_processes, interrupted, alive, signals, drains>>

\* the driver is done: the interpreter exits and calls the atexit hook
MainReturn ==
    /\ phase = "run"
    /\ stack = << >>
    /\ \A w \in Workers : wpc[w] \in {"idle", "stopped"}
    /\ phase' = "exit"
    /\ stack' = <<HookFrame>>
    /\ UNCHANGED <<cfgVars, resultVars, storeVars, clientVars, workerVars, histVars, lockVars, port_pool,
                   active_processes, interrupted, alive, signals, drains>>

\* the atexit call of cleanup_processes returns
HookReturn ==
    /\ InFrame("done")
    /\ stack' = << >>
    /\ UNCHANGED <<cfgVars, resultVars, storeVars, clientVars, workerVars, histVars, lockVars, phase,
                   port_pool, active_processes, interrupted, alive, signals, drains>>

\* the process is gone
ProcessExit ==
    /\ phase = "exit"
    /\ stack = << >>
    /\ phase' = "dead"
    /\ UNCHANGED <<cfgVars, resultVars, storeVars, clientVars, workerVars, histVars, lockVars, mainVars,
                   port_pool, active_processes, interrupted, alive>>

Next ==
    \/ \E w \in Workers : CheckStop(w)
    \/ \E w \in Workers : TakePort(w)
    \/ \E w \in Workers : Launch(w)
    \/ \E w \in Workers : Register(w)
    \/ \E w \in Workers : Unregister(w)
    \/ \E w \in Workers : ReturnPort(w)
    \/ Signal
    \/ SnapshotCopy
    \/ SnapshotClear
    \/ Kill
    \/ KillRaises
    \/ ReturnAppend
    \/ ReturnRelease
    \/ SavePartial
    \/ SysExit
    \/ MainReturn
    \/ HookReturn
    \/ ProcessExit

Spec == Init /\ [][Next]_vars

(***************************************************************************)
(* SpecPartial: the program run with an output path and with descriptors    *)
(* already confirmed good (the driver assigns signals.output_path_global    *)
(* and signals.available_keys: PartialRuns are the pairs of them), on a     *)
(* pool of one port.                                                        *)
(***************************************************************************)
PartialRuns == {<<<< >>, <<"o", ".", "t", "x", "t">>>>,
                <<<<"k1", "k2">>, << >>>>,
                <<<<"k1", "k2">>, <<"o", ".", "t", "x", "t">>>>,
                <<<<"k1">>, <<"o">>>>,
                <<<<"k1">>, <<"a", ".", "t", "x", "t", "/", "o", ".", "t", "x", "t">>>>}

InitPartial ==
    /\ BASE_PORT = MaxPort
    /\ MAX_WORKERS = NumWorkers
    /\ phase = "run"
    /\ port_pool = PortPoolInit(BASE_PORT, MAX_WORKERS)
    /\ InitCommon
    /\ \E r \in PartialRuns : available_keys = r[1] /\ output_path_global = r[2]

SpecPartial == InitPartial /\ [][Next]_vars

(***************************************************************************)
(* SpecConfig: port_pool.py is imported under a configuration.              *)
(***************************************************************************)
BasePorts == {-3, 0, 1, 2, 1000, MaxPort - 5, MaxPort - 2, MaxPort - 1, MaxPort,
              MaxPort + 1, MaxPort + 5, 70000}

WorkerCounts == {-2, 0, 1, 2, 3, 6, 10}

InitConfig ==
    /\ BASE_PORT \in BasePorts
    /\ MAX_WORKERS \in WorkerCounts
    /\ phase = "import"
    /\ port_pool = << >>
    /\ InitCommon
    /\ NoResults

\* port_pool.py:15-36
ImportPortPool ==
    /\ phase = "import"
    /\ port_pool' = PortPoolInit(BASE_PORT, MAX_WORKERS)
    /\ phase' = "run"
    /\ UNCHANGED <<cfgVars, resultVars, storeVars, clientVars, workerVars, histVars, lockVars, mainVars,
                   active_processes, interrupted, alive>>

NextConfig == ImportPortPool

SpecConfig == InitConfig /\ [][NextConfig]_vars

(***************************************************************************)
(* SpecPool: callers of take_port / return_port that give back only ports   *)
(* they took, each once.  calls is the list of the calls made, each with    *)
(* the value returned (take) or passed (return).                            *)
(***************************************************************************)
PoolConfigs == {<<MaxPort - 2, 3>>, <<MaxPort - 1, 3>>, <<MaxPort, 3>>,
                <<MaxPort + 1, 3>>, <<1080, 2>>}

InitPool ==
    /\ \E c \in PoolConfigs : BASE_PORT = c[1] /\ MAX_WORKERS = c[2]
    /\ phase = "run"
    /\ port_pool = PortPoolInit(BASE_PORT, MAX_WORKERS)
    /\ InitCommon
    /\ NoResults

\* port_pool.py:39-44
CallTake ==
    /\ Len(calls) < MaxCalls
    /\ port_lock = "free"
    /\ port_pool' = TakePortPool(port_pool)
    /\ held' = IF TakePortResult(port_pool) = None
               THEN held
               ELSE held \cup {ValueOf(TakePortResult(port_pool))}
    /\ calls' = Append(calls, <<"take", TakePortResult(port_pool)>>)
    /\ UNCHANGED <<cfgVars, resultVars, storeVars, workerVars, histVars, lockVars, mainVars, phase,
                   active_processes, interrupted, alive>>

\* port_pool.py:47-50
CallReturn(port) ==
    /\ Len(calls) < MaxCalls
    /\ port \in held
    /\ port_lock = "free"
    /\ port_pool' = ReturnPortPool(port_pool, port)
    /\ held' = held \ {port}
    /\ calls' = Append(calls, <<"return", Some(port)>>)
    /\ UNCHANGED <<cfgVars, resultVars, storeVars, workerVars, histVars, lockVars, mainVars, phase,
                   active_processes, interrupted, alive>>

NextPool ==
    \/ CallTake
    \/ \E port \in held : CallReturn(port)

SpecPool == InitPool /\ [][NextPool]_vars

(***************************************************************************)
(* SpecCallers: workers that call take_port / return_port with no           *)
(* discipline: a worker keeps the port in its variable after return_port    *)
(* and may pass it to return_port once more.  calls is the list of the      *)
(* calls made: the function, the value returned or passed, the worker.      *)
(***************************************************************************)
CallerConfigs == {<<1080, 1>>, <<1080, 2>>, <<MaxPort, 2>>}

InitCallers ==
    /\ \E c \in CallerConfigs : BASE_PORT = c[1] /\ MAX_WORKERS = c[2]
    /\ phase = "run"
    /\ port_pool = PortPoolInit(BASE_PORT, MAX_WORKERS)
    /\ InitCommon
    /\ NoResults

\* the worker holds the port take_port gave it
Holds(w, port) == wpc[w] = "took" /\ wport[w] = Some(port)

\* port_pool.py:39-44
CallerTake(w) ==
    /\ Len(calls) < MaxCalls
    /\ wpc[w] \in {"idle", "returned"}
    /\ port_lock = "free"
    /\ port_pool' = TakePortPool(port_pool)
    /\ wport' = [wport EXCEPT ![w] = TakePortResult(port_pool)]
    /\ wpc' = [wpc EXCEPT ![w] = IF TakePortResult(port_pool) = None
                                 THEN "idle" ELSE "took"]
    /\ calls' = Append(calls, <<"take", TakePortResult(port_pool), w>>)
    /\ UNCHANGED <<cfgVars, resultVars, storeVars, histVars, lockVars, mainVars, phase,
                   active_processes, interrupted, alive, wproc, started, held>>

\* port_pool.py:47-50
CallerReturn(w) ==
    /\ Len(calls) < MaxCalls
    /\ wpc[w] = "took"
    /\ port_lock = "free"
    /\ port_pool' = ReturnPortPool(port_pool, ValueOf(wport[w]))
    /\ wpc' = [wpc EXCEPT ![w] = "returned"]
    /\ calls' = Append(calls, <<"return", wport[w], w>>)
    /\ UNCHANGED <<cfgVars, resultVars, storeVars, histVars, lockVars, mainVars, phase,
                   active_processes, interrupted, alive, wport, wproc, started,
                   held>>

\* port_pool.py:47-50, called again with the port already given back
CallerReturnAgain(w) ==
    /\ Len(calls) < MaxCalls
    /\ wpc[w] = "returned"
    /\ port_lock = "free"
    /\ port_pool' = ReturnPortPool(port_pool, ValueOf(wport[w]))
    /\ wpc' = [wpc EXCEPT ![w] = "idle"]
    /\ wport' = [wport EXCEPT ![w] = None]
    /\ calls' = Append(calls, <<"return", wport[w], w>>)
    /\ UNCHANGED <<cfgVars, resultVars, storeVars, histVars, lockVars, mainVars, phase,
                   active_processes, interrupted, alive, wproc, started, held>>

NextCallers ==
    \/ \E w \in Workers : CallerTake(w)
    \/ \E w \in Workers : CallerReturn(w)
    \/ \E w \in Workers : CallerReturnAgain(w)

SpecCallers == InitCallers /\ [][NextCallers]_vars

(***************************************************************************)
(* SpecStore: a caller of the notworkers store.  It opens the database      *)
(* (init_db), calls the operations on its connection in any order, lets time *)
(* pass, closes the connection; migrate_from_flat and export_to_flat use a   *)
(* connection of their own.                                                  *)
(***************************************************************************)
MaxOps == 4

MaxDays == 1

programVars == <<cfgVars, resultVars, clientVars, mainVars, lockVars, workerVars, histVars,
                 phase, port_pool, active_processes, interrupted, alive>>

\* the arguments the callers of the model pass: a timestamp of the day before the
\* clock starts and one of the day after
Early == Format(8 * SecondsPerDay + 3600)

Late == Format(10 * SecondsPerDay + 60)

\* the calls of upsert_notworker: <<key, raw, source, seen_at>>
UpsertCalls ==
    {<<"", <<"a">>, Some("probe"), None>>,
     <<"k1", <<"a">>, None, None>>,
     <<"k1", <<"b", "LF">>, Some("probe"), Some(Early)>>,
     <<"k2", <<"b", "LF">>, None, Some(Late)>>}

AgeArgs == {-1, 0, 1}

MaxRowsArgs == {0, 1, 2}

\* normalized_to_full of the flat files of the model: the pairs (key, line), in the
\* order of the dict; the empty one stands for a missing or empty file too
Flats == {<< >>,
          <<<<"k1", <<"a", "LF">>>>, <<"k2", <<"b", "LF">>>>>>,
          <<<<"k3", <<"c", "LF">>>>, <<"k2", <<"a">>>>, <<"k1", <<"b", "LF">>>>>>}

InitStore ==
    /\ BASE_PORT = 1080
    /\ MAX_WORKERS = 1
    /\ phase = "run"
    /\ port_pool = PortPoolInit(BASE_PORT, MAX_WORKERS)
    /\ InitCommon
    /\ NoResults

\* a write transaction of conn is open: its statements are not committed
Dirty == conn = "open" /\ notworkers # committed

\* store.py:21-45: init_db creates the file and the table when missing
InitDb ==
    /\ conn = "closed"
    /\ conn' = "open"
    /\ db_file' = TRUE
    /\ notworkers' = committed
    /\ last' = Call("init_db", << >>, << >>, notworkers)
    /\ UNCHANGED <<programVars, committed, now, flat_file, ops, peak>>

\* cli.py:43, 69, 103: conn.close(); an open transaction is rolled back
Close ==
    /\ conn = "open"
    /\ conn' = "closed"
    /\ notworkers' = committed
    /\ last' = Call("close", << >>, << >>, notworkers)
    /\ UNCHANGED <<programVars, db_file, committed, now, flat_file, ops, peak>>

\* store.py:18, 94: what datetime.utcnow() may return: the last reading, a tick
\* later or a day later (the model follows the clock for MaxDays days and, within a
\* day, for one second)
UtcNow ==
    {t \in {now, now + 1, now + TicksPerDay} :
        /\ (t - StartTime) \div TicksPerDay <= MaxDays
        /\ (t - StartTime) % TicksPerDay <= TicksPerSecond}

\* store.py:48-74: upsert_notworker(conn, key, raw, source, seen_at); no commit
UpsertNotworker(key, raw, source, seen_at) ==
    /\ conn = "open"
    /\ ops < MaxOps
    /\ IF key # "" /\ seen_at = None THEN now' \in UtcNow ELSE now' = now
    /\ notworkers' = UpsertTable(notworkers, key, raw, source, seen_at, now')
    /\ ops' = ops + 1
    /\ last' = Call("upsert", <<key, raw, source, seen_at>>, << >>, notworkers)
    /\ UNCHANGED <<programVars, db_file, committed, conn, flat_file, peak>>

\* store.py:87-98: expire_old(conn, max_age_days)
ExpireOld(max_age_days) ==
    /\ conn = "open"
    /\ ops < MaxOps
    /\ ops' = ops + 1
    /\ IF max_age_days <= 0
       THEN /\ last' = Call("expire", <<max_age_days>>, <<0>>, notworkers)
            /\ UNCHANGED <<notworkers, committed, now, peak>>
       ELSE /\ now' \in UtcNow
            /\ LET gone == Expired(notworkers, CutoffStr(now', max_age_days)) IN
                /\ notworkers' = notworkers \ gone
                /\ committed' = notworkers'
                /\ peak' = PeakAfter(committed')
                /\ last' = Call("expire", <<max_age_days>>, <<Cardinality(gone)>>,
                                notworkers)
    /\ UNCHANGED <<programVars, db_file, conn, flat_file>>

\* store.py:101-125: prune_to_max(conn, max_rows)
PruneToMax(max_rows) ==
    /\ conn = "open"
    /\ ops < MaxOps
    /\ ops' = ops + 1
    /\ IF max_rows <= 0 \/ Cardinality(notworkers) <= max_rows
       THEN /\ last' = Call("prune", <<max_rows>>, <<0>>, notworkers)
            /\ UNCHANGED <<notworkers, committed, peak>>
       ELSE \E gone \in OldestRows(notworkers, Cardinality(notworkers) - max_rows) :
                /\ notworkers' = notworkers \ gone
                /\ committed' = notworkers'
                /\ peak' = PeakAfter(committed')
                /\ last' = Call("prune", <<max_rows>>, <<Cardinality(gone)>>,
                                notworkers)
    /\ UNCHANGED <<programVars, db_file, conn, now, flat_file>>

\* store.py:153-187: migrate_from_flat(flat_path, db_path) on its own connection
MigrateFromFlat(flat) ==
    /\ ops < MaxOps
    /\ ~Dirty
    /\ ops' = ops + 1
    /\ IF flat = << >>
       THEN /\ last' = Call("migrate", <<flat>>, <<0, 0>>, committed)
            /\ UNCHANGED <<db_file, committed, notworkers, now, peak>>
       ELSE /\ now' \in UtcNow
            /\ LET done == MigrateLoop(committed, flat, Len(flat), now') IN
                /\ db_file' = TRUE
                /\ committed' = done.tbl
                /\ notworkers' = done.tbl
                /\ peak' = PeakAfter(done.tbl)
                /\ last' = Call("migrate", <<flat>>, <<done.inserted, done.updated>>,
                                committed)
    /\ UNCHANGED <<programVars, conn, flat_file>>

\* migrate_from_flat while conn holds the write lock: its first INSERT waits for the
\* lock and raises sqlite3.OperationalError; its connection is closed, nothing is
\* committed
MigrateLocked(flat) ==
    /\ ops < MaxOps
    /\ Dirty
    /\ flat # << >>
    /\ ops' = ops + 1
    /\ last' = Call("migrate_locked", <<flat>>, << >>, committed)
    /\ UNCHANGED <<programVars, db_file, committed, conn, notworkers, now, flat_file,
                   peak>>

\* store.py:190-219: export_to_flat(db_path, flat_path) on its own connection
ExportToFlat ==
    /\ ops < MaxOps
    /\ ops' = ops + 1
    /\ IF ~db_file
       THEN /\ last' = Call("export", << >>, <<0>>, committed)
            /\ UNCHANGED flat_file
       ELSE LET rows == SortByKey(committed) IN
            /\ flat_file' = Some(ExportText(rows, Len(rows)))
            /\ last' = Call("export", << >>, <<Len(rows)>>, committed)
    /\ UNCHANGED <<programVars, db_file, committed, conn, notworkers, now, peak>>

NextStore ==
    \/ InitDb
    \/ Close
    \/ \E call \in UpsertCalls : UpsertNotworker(call[1], call[2], call[3], call[4])
    \/ \E max_age_days \in AgeArgs : ExpireOld(max_age_days)
    \/ \E max_rows \in MaxRowsArgs : PruneToMax(max_rows)
    \/ \E flat \in Flats : MigrateFromFlat(flat)
    \/ \E flat \in Flats : MigrateLocked(flat)
    \/ ExportToFlat

SpecStore == InitStore /\ [][NextStore]_vars

(***************************************************************************)
(* Properties.                                                              *)
(***************************************************************************)
InitialPool == PortPoolInit(BASE_PORT, MAX_WORKERS)

Capacity == Len(InitialPool)

\* C9: every port the pool is initialised with lies in 1..65535, whatever
\* BASE_PORT and MAX_WORKERS are configured.
C9_PortsInValidRange ==
    phase = "run" => \A i \in 1..Len(port_pool) : port_pool[i] \in 1..MaxPort

\* C10: for BASE_PORT in 1..65535 and MAX_WORKERS >= 1 the initial pool is exactly
\* BASE_PORT .. min(BASE_PORT + MAX_WORKERS - 1, 65535), each port once and in
\* this order; it has MAX_WORKERS ports when the range fits.
C10_ClampedRange ==
    (phase = "run" /\ BASE_PORT \in 1..MaxPort /\ MAX_WORKERS >= 1) =>
        /\ Len(port_pool) = Min(BASE_PORT + MAX_WORKERS - 1, MaxPort) - BASE_PORT + 1
        /\ \A i \in 1..Len(port_pool) : port_pool[i] = BASE_PORT + i - 1
        /\ BASE_PORT + MAX_WORKERS - 1 <= MaxPort => Len(port_pool) = MAX_WORKERS

\* base 65530, capacity 10: the six ports 65530..65535
C10_Witness ==
    /\ phase = "run"
    /\ BASE_PORT = MaxPort - 5
    /\ MAX_WORKERS = 10
    /\ port_pool = <<65530, 65531, 65532, 65533, 65534, 65535>>

\* C2: under the one-return-per-take discipline the free ports and the ports held
\* are together exactly the initial ports, none twice; with nothing held the pool
\* holds the initial ports, each once.
C2_PoolConservation ==
    /\ NoDuplicates(port_pool)
    /\ Elems(port_pool) \cap held = {}
    /\ Elems(port_pool) \cup held = Elems(InitialPool)
    /\ held = {} => Len(port_pool) = Len(InitialPool)

\* everything was taken and given back, in an order that permuted the list
C2_Witness ==
    /\ held = {}
    /\ Len(calls) >= 4
    /\ port_pool # InitialPool
    /\ Elems(port_pool) = Elems(InitialPool)

AllTakes(n) == \A i \in 1..n : calls[i][1] = "take"

\* C8: with no return in between, the first Capacity takes return distinct ports
\* and every later one returns None and leaves the pool as it was (empty); a
\* return_port after that makes exactly one port available: the next take gets a
\* port and the one after it None.
C8_Exhaustion ==
    /\ \A n \in 1..Len(calls) : AllTakes(n) =>
           IF n <= Capacity
           THEN /\ calls[n][2] # None
                /\ \A m \in 1..(n - 1) : calls[m][2] # calls[n][2]
           ELSE calls[n][2] = None
    /\ (Len(calls) >= Capacity /\ AllTakes(Len(calls))) => port_pool = << >>
    /\ (/\ Len(calls) >= Capacity + 2
        /\ AllTakes(Capacity + 1)
        /\ calls[Capacity + 2][1] = "return") =>
           /\ Len(calls) = Capacity + 2 => port_pool = calls[Capacity + 2][2]
           /\ (Len(calls) >= Capacity + 3 /\ calls[Capacity + 3][1] = "take") =>
                  calls[Capacity + 3][2] # None
           /\ (/\ Len(calls) >= Capacity + 4
               /\ calls[Capacity + 3][1] = "take"
               /\ calls[Capacity + 4][1] = "take") =>
                  calls[Capacity + 4][2] = None

\* capacity 2: take, take, take (None), return, take, take (None)
C8_Witness ==
    /\ Capacity = 2
    /\ Len(calls) = 6
    /\ AllTakes(3)
    /\ calls[3][2] = None
    /\ calls[4][1] = "return"
    /\ calls[5][1] = "take" /\ calls[5][2] # None
    /\ calls[6][1] = "take" /\ calls[6][2] = None

\* the pairs a worker is still working on
InFlight == {<<wproc[w], ValueOf(wport[w])>> : w \in {v \in Workers : wport[v] # None}}

Pairs(d) == Elems(d)

RECURSIVE DrainCount(_, _)
\* in how many places of the first n drains the pair was returned
DrainCount(pair, n) ==
    IF n = 0 THEN 0 ELSE Count(drains[n], pair) + DrainCount(pair, n - 1)

\* C1: a registered pair is cleaned by exactly one of the worker's completion path
\* (unregister_process, return_port) and the shutdown path (drain, kill,
\* return_port): its port is appended to the pool once, never by both paths, and
\* a pair whose worker completed was cleaned.
C1_CleanedExactlyOnce ==
    \A pair \in registered :
        /\ ~(pair \in byWorker /\ pair \in byShutdown)
        /\ pair \notin InFlight => pair \in byWorker \cup byShutdown

\* C3: when the process is gone the registry is empty, every registered probe
\* process is terminated and every port of the initial range is in the pool once
\* (stated for exits at which every worker has completed its loop).
C3_FullyReclaimedAtExit ==
    (phase = "dead" /\ InFlight = {}) =>
        /\ active_processes = << >>
        /\ \A pair \in registered : pair[1] \notin alive
        /\ \A port \in Elems(InitialPool) : Count(port_pool, port) = 1

\* C4: a further signal or hook during shutdown does not cut the first trigger's
\* cleanup short: once the first handler is over and the interpreter is exiting,
\* every pair the first drain captured was terminated and had its port given back by
\* the shutdown path (stated for first drains whose processes can all be killed; a
\* non-empty first drain is always a signal handler's, made while the program ran).
C4_FirstCleanupCompletes ==
    (/\ phase # "run"
     /\ drains # << >>
     /\ \A pair \in Pairs(drains[1]) : pair[1] \notin Unkillable) =>
        \A pair \in Pairs(drains[1]) : pair \in byShutdown /\ pair[1] \notin alive

\* C5: cleanup never aborts partway: also when kill_xray_process raises for one
\* captured pair, the shutdown path gives back the port of that pair and of every
\* other pair the same drain captured (stated for runs with at most one signal, so
\* that no second handler interferes, once the handler is over).
C5_CleanupNeverAborts ==
    (phase # "run" /\ signals <= 1 /\ drains # << >>) =>
        \A pair \in Pairs(drains[1]) : pair \in byShutdown

\* C7: no port is held by two workers at the same time, and the registry holds at
\* most one live process per port.
C7_PortExclusive ==
    /\ \A v, w \in Workers : (v # w /\ wport[v] # None) => wport[v] # wport[w]
    /\ \A i, j \in 1..Len(active_processes) :
           (/\ i # j
            /\ active_processes[i][1] \in alive
            /\ active_processes[j][1] \in alive) =>
               active_processes[i][2] # active_processes[j][2]

\* a pair that left the registry through unregister_process
Unregistered(pair) ==
    \/ pair \in byWorker
    \/ \E w \in Workers : /\ wpc[w] = "unregistered"
                          /\ pair = <<wproc[w], ValueOf(wport[w])>>

\* C6: _snapshot_and_clear_active returns exactly the pairs in the registry at its
\* step (while it holds the lock between its copy and its clear, its list is the
\* registry) and leaves the registry empty; every registered pair is in the registry
\* or was returned by exactly one drain, unless unregister_process removed it: none
\* is lost, none is returned twice, none stays in the registry once returned.
C6_DrainAtomic ==
    /\ \A n \in 1..Len(stack) :
           stack[n].pc = "clear" => stack[n].items = active_processes
    /\ \A pair \in registered :
           /\ Count(active_processes, pair) + DrainCount(pair, Len(drains)) <= 1
           /\ Count(active_processes, pair) + DrainCount(pair, Len(drains)) = 0 =>
                  Unregistered(pair)

\* one drain returned two pairs that two workers had registered
C6_Witness ==
    /\ drains # << >>
    /\ Len(drains[1]) = 2
    /\ active_processes = << >>
    /\ \A pair \in Pairs(drains[1]) : pair \in registered

\* every pair any drain has captured so far
Captured == UNION {Pairs(drains[n]) : n \in 1..Len(drains)}

\* C11: the shutdown steps run in order on every transition, started by a signal or
\* by the exit hook: the stop flag is set before the registry is drained; a captured
\* pair's process is terminated before its port is given back; the partial results are
\* written after every captured pair was cleaned; the process ends last.
C11_ShutdownOrder ==
    /\ \A n \in 1..Len(stack) : stack[n].pc # "drain" => interrupted
    /\ \A pair \in byShutdown : pair[1] \notin alive
    /\ \A n \in 1..Len(stack) :
           stack[n].pc = "exit" => \A pair \in Captured : pair \in byShutdown
    /\ phase = "dead" => \A pair \in Captured : pair \in byShutdown

(***************************************************************************)
(* Properties of the notworkers store (SpecStore).                          *)
(***************************************************************************)
\* the rows of the store, through the connection and in the file
AllRows == notworkers \cup committed

\* C12: first_seen <= last_seen for every entry, after any sequence of
\* upsert_notworker (with any seen_at, given or defaulted, in any order),
\* expire_old, prune_to_max and migrate_from_flat.
C12_FirstSeenNotAfterLastSeen ==
    \A r \in AllRows : ~LexLess(r.last_seen, r.first_seen)

\* C13: for every key the fail_count seen in the store is >= 1 and never decreases
\* over any sequence of upserts, expiries, prunings and migrations, also when the
\* key was deleted and is seen again: in the file it is never below the highest
\* the key has had there.
C13_FailCountNeverDecreases ==
    \A r \in committed : r.fail_count >= 1 /\ r.fail_count >= peak[r.key]

\* the operations called on conn, and all the mutating ones
ConnOps == {"upsert", "expire", "prune"}

MutatingOps == ConnOps \cup {"migrate"}

\* the table the last operation left: migrate_from_flat works on the file
TableNow == IF last.op = "migrate" THEN committed ELSE notworkers

\* C13 (amended): for every key the fail_count is >= 1, and no upsert, expiry,
\* pruning or migration lowers the fail_count of an entry it leaves in the store;
\* an entry deleted and created again starts at 1.
C13_FailCountWhilePresent ==
    /\ \A r \in AllRows : r.fail_count >= 1
    /\ last.op \in MutatingOps =>
           \A r \in TableNow :
               IF HasKey(last.before, r.key)
               THEN \A b \in last.before : b.key = r.key => r.fail_count >= b.fail_count
               ELSE r.fail_count = 1

\* a migration raised one entry's fail_count to 2 and created again, at 1, an entry
\* that had been deleted at fail_count 2
C13_Witness ==
    /\ last.op = "migrate"
    /\ \E r \in committed : r.fail_count = 2 /\ HasKey(last.before, r.key)
    /\ \E r \in committed : /\ r.fail_count = 1
                            /\ peak[r.key] >= 2
                            /\ ~HasKey(last.before, r.key)

\* the rows of a key
RowsOf(tbl, key) == {r \in tbl : r.key = key}

\* the timestamp an upsert with these arguments writes, the clock reading `now`
SeenAtOf(call) == IF call.args[4] = None THEN UtcNowStr(now) ELSE ValueOf(call.args[4])

\* C14: upsert_notworker on an absent non-empty key creates one entry with
\* fail_count 1 and first_seen = last_seen = seen_at; on a present key it keeps key
\* and first_seen, sets raw to the new raw and last_seen to seen_at, adds exactly 1
\* to fail_count and replaces source only when one was supplied; the entries of the
\* other keys are unchanged (so n upserts of a key leave one entry with the last raw,
\* fail_count n, the first call's first_seen and the last call's last_seen).
C14_UpsertSemantics ==
    (last.op = "upsert" /\ last.args[1] # "") =>
        LET key == last.args[1]
            raw == last.args[2]
            source == last.args[3]
            seen_at == SeenAtOf(last)
        IN  /\ notworkers \ RowsOf(notworkers, key) = last.before \ RowsOf(last.before, key)
            /\ Cardinality(RowsOf(notworkers, key)) = 1
            /\ \A r \in RowsOf(notworkers, key) :
                   /\ r.raw = raw
                   /\ r.last_seen = seen_at
                   /\ IF RowsOf(last.before, key) = {}
                      THEN /\ r.fail_count = 1
                           /\ r.first_seen = seen_at
                           /\ r.source = source
                      ELSE \A b \in RowsOf(last.before, key) :
                               /\ r.fail_count = b.fail_count + 1
                               /\ r.first_seen = b.first_seen
                               /\ r.source = IF source # None THEN source ELSE b.source

\* the third upsert of a key, without a source, on an entry that has one: the entry
\* has the third raw, fail_count 3, the first call's first_seen, a later last_seen
C14_Witness ==
    /\ last.op = "upsert"
    /\ last.args[3] = None
    /\ \E r \in notworkers : /\ r.key = last.args[1]
                             /\ r.raw = last.args[2]
                             /\ r.fail_count = 3
                             /\ r.source # None
                             /\ LexLess(r.first_seen, r.last_seen)

\* C15: each mutating operation is committed by itself: once upsert_notworker,
\* expire_old or prune_to_max has returned, its effect is in the file (what a new
\* connection sees, and what is left when the connection is closed with no further
\* commit).
C15_EachOperationCommitted ==
    last.op \in ConnOps => committed = notworkers

\* the time, in whole seconds, that a timestamp of DATETIME_FORMAT denotes
TimeOf(ts) ==
    (ts[1] * 10 + ts[2]) * SecondsPerDay + (ts[3] * 10 + ts[4]) * 3600
        + (ts[5] * 10 + ts[6]) * 60 + ts[7] * 10 + ts[8]

\* C16: prune_to_max(max_rows) with max_rows > 0 and total > max_rows leaves exactly
\* max_rows entries, returns total - max_rows, and every deleted entry's last_seen
\* is no later than every surviving entry's (the oldest go first, survivors are
\* untouched); with total <= max_rows or max_rows <= 0 it deletes nothing and
\* returns 0.
C16_PruneToMax ==
    last.op = "prune" =>
        LET max_rows == last.args[1]
            total == Cardinality(last.before)
        IN  IF max_rows > 0 /\ total > max_rows
            THEN /\ Cardinality(notworkers) = max_rows
                 /\ last.result = <<total - max_rows>>
                 /\ notworkers \subseteq last.before
                 /\ \A d \in last.before \ notworkers : \A r \in notworkers :
                        TimeOf(d.last_seen) <= TimeOf(r.last_seen)
            ELSE /\ notworkers = last.before
                 /\ last.result = <<0>>

\* three entries with three different last_seen, prune_to_max(1): the two oldest go
C16_Witness ==
    /\ last.op = "prune"
    /\ last.args = <<1>>
    /\ last.result = <<2>>
    /\ Cardinality(notworkers) = 1
    /\ \A d \in last.before \ notworkers : \A r \in notworkers :
           TimeOf(d.last_seen) < TimeOf(r.last_seen)
    /\ \A d, e \in last.before : d # e => d.last_seen # e.last_seen

\* C17: expire_old(max_age_days) with max_age_days > 0 deletes exactly the entries
\* whose last_seen is strictly older than now - max_age_days (times taken to the
\* whole second, as timestamps are), keeps every entry at or after that cutoff,
\* unmodified, and returns the number deleted; with max_age_days <= 0 it deletes
\* nothing and returns 0.
C17_ExpireOld ==
    last.op = "expire" =>
        LET max_age_days == last.args[1]
            cutoff == now \div TicksPerSecond - max_age_days * SecondsPerDay
        IN  IF max_age_days > 0
            THEN /\ notworkers = {r \in last.before : TimeOf(r.last_seen) >= cutoff}
                 /\ last.result = <<Cardinality(last.before) - Cardinality(notworkers)>>
            ELSE /\ notworkers = last.before
                 /\ last.result = <<0>>

\* expire_old(1) deleted an entry and kept the entry whose last_seen is the cutoff,
\* the clock being part of a second past the whole second
C17_Witness ==
    /\ last.op = "expire"
    /\ last.args = <<1>>
    /\ last.result = <<1>>
    /\ now % TicksPerSecond # 0
    /\ \E r \in notworkers :
           TimeOf(r.last_seen) = now \div TicksPerSecond - SecondsPerDay

\* the normalized keys of a flat representation
FlatKeys(flat) == {flat[i][1] : i \in 1..Len(flat)}

\* at most one row per key
UniqueKeys(tbl) == \A r, q \in tbl : r.key = q.key => r = q

\* C18: migrate_from_flat over n distinct normalized keys returns (inserted, updated)
\* with inserted + updated = n and inserted the number of those keys absent before;
\* into an empty store it returns (n, 0); run again on the same input (every key
\* present) it returns (0, n), adds 1 to each of those entries' fail_count and leaves
\* the number of entries as it was; it never creates a duplicate key.
C18_MigrateCounts ==
    last.op = "migrate" =>
        LET flat == last.args[1]
            n == Cardinality(FlatKeys(flat))
            absent == {key \in FlatKeys(flat) : ~HasKey(last.before, key)}
        IN  /\ last.result[1] + last.result[2] = n
            /\ last.result[1] = Cardinality(absent)
            /\ last.before = {} => last.result = <<n, 0>>
            /\ absent = {} =>
                   /\ last.result = <<0, n>>
                   /\ Cardinality(committed) = Cardinality(last.before)
            /\ \A key \in FlatKeys(flat) : \A b \in RowsOf(last.before, key) :
                   \E r \in committed : r.key = key /\ r.fail_count = b.fail_count + 1
            /\ Cardinality(committed) = Cardinality(last.before) + last.result[1]
            /\ UniqueKeys(committed)

\* the second migration of the same three descriptors: (0, 3), every count at 2
C18_Witness ==
    /\ last.op = "migrate"
    /\ last.result = <<0, 3>>
    /\ Cardinality(committed) = 3
    /\ \A r \in committed : r.fail_count = 2
    /\ \A i \in 1..Len(last.args[1]) :
           \E r \in committed : r.key = last.args[1][i][1] /\ r.raw = last.args[1][i][2]

\* C19: after any sequence of upserts, migrations, expiries and prunings the store
\* holds at most one entry per key, and an upsert with an empty key changes nothing.
C19_KeyUnique ==
    /\ UniqueKeys(notworkers)
    /\ UniqueKeys(committed)
    /\ \A r \in AllRows : r.key # ""
    /\ (last.op = "upsert" /\ last.args[1] = "") => notworkers = last.before

\* an upsert with an empty key on a store of two entries, one of them upserted twice
C19_Witness ==
    /\ last.op = "upsert"
    /\ last.args[1] = ""
    /\ Cardinality(notworkers) = 2
    /\ \E r \in notworkers : r.fail_count = 2

\* the place of the first newline of a text (past its end when it has none)
FirstNewline(text) ==
    IF \E i \in 1..Len(text) : text[i] = "LF"
    THEN CHOOSE i \in 1..Len(text) :
             text[i] = "LF" /\ \A j \in 1..(i - 1) : text[j] # "LF"
    ELSE Len(text) + 1

\* the lines of a text, without their newlines
RECURSIVE SplitLines(_)
SplitLines(text) ==
    IF text = << >>
    THEN << >>
    ELSE <<SubSeq(text, 1, FirstNewline(text) - 1)>>
             \o SplitLines(SubSeq(text, FirstNewline(text) + 1, Len(text)))

\* a descriptor without its trailing newline
Descriptor(raw) == IF EndsWithNewline(raw) THEN SubSeq(raw, 1, Len(raw) - 1) ELSE raw

\* C20: export_to_flat is a copy: it leaves every entry of the store unchanged,
\* writes one line per stored entry, in ascending order of key, and returns the
\* number of entries; on a store that does not exist it returns 0 and creates
\* neither the store nor the flat file.
C20_ExportIsCopy ==
    last.op = "export" =>
        /\ committed = last.before
        /\ IF db_file
           THEN /\ flat_file # None
                /\ last.result = <<Cardinality(committed)>>
                /\ LET lines == SplitLines(ValueOf(flat_file)) IN
                   /\ Len(lines) = Cardinality(committed)
                   /\ \A r \in committed : \E i \in 1..Len(lines) :
                          /\ lines[i] = Descriptor(r.raw)
                          /\ i = 1 + Cardinality({q \in committed : KeyLess(q.key, r.key)})
           ELSE /\ flat_file = None
                /\ committed = {}
                /\ last.result = <<0>>

\* three entries exported, one of them with a raw that has no newline of its own
C20_Witness ==
    /\ last.op = "export"
    /\ last.result = <<3>>
    /\ \E r \in committed : ~EndsWithNewline(r.raw)
    /\ Len(SplitLines(ValueOf(flat_file))) = 3


(***************************************************************************)
(* SpecLive: Spec with the scheduling of its threads.  The main thread and  *)
(* each worker thread take their next step whenever they can go on (a       *)
(* thread waiting for a lock cannot); the delivery of a signal is up to the *)
(* environment and is not required.                                         *)
(***************************************************************************)
MainStep ==
    \/ SnapshotCopy
    \/ SnapshotClear
    \/ Kill
    \/ KillRaises
    \/ ReturnAppend
    \/ ReturnRelease
    \/ SavePartial
    \/ SysExit
    \/ MainReturn
    \/ HookReturn
    \/ ProcessExit

WorkerStep(w) ==
    \/ CheckStop(w)
    \/ TakePort(w)
    \/ Launch(w)
    \/ Register(w)
    \/ Unregister(w)
    \/ ReturnPort(w)

SpecLive ==
    /\ Init
    /\ [][Next]_vars
    /\ WF_vars(MainStep)
    /\ \A w \in Workers : WF_vars(WorkerStep(w))

\* C21: once a signal is delivered the shutdown runs to its end, the exit of the
\* process, whatever the interrupted thread was doing, a critical section of the
\* registry or of the pool included
C21_ShutdownCompletes == (signals > 0) ~> (phase = "dead")

\* the calls of the log that are `fn` with the port `port`
CallsOf(fn, port) ==
    {i \in 1..Len(calls) : calls[i][1] = fn /\ calls[i][2] = Some(port)}

\* the log ends with the calls `tail` (function names)
EndsWith(tail) ==
    /\ Len(calls) >= Len(tail)
    /\ \A i \in 1..Len(tail) : calls[Len(calls) - Len(tail) + i][1] = tail[i]

CallAt(k) == calls[Len(calls) - k]

\* C22: return_port detects no duplicate.  Every return_port(p) adds one p to the
\* pool, whether or not p is there already; after one take of p and two returns of
\* p the pool has p twice, and the next two take_port calls both return p: made by
\* two different workers, both hold p at the same time.
C22_NoDuplicateDetection ==
    /\ \A port \in Elems(InitialPool) :
           Count(port_pool, port) = Count(InitialPool, port)
                                    - Cardinality(CallsOf("take", port))
                                    + Cardinality(CallsOf("return", port))
    /\ (/\ EndsWith(<<"take", "return", "return">>)
        /\ CallAt(2)[2] = CallAt(1)[2]
        /\ CallAt(1)[2] = CallAt(0)[2]) =>
           Count(port_pool, ValueOf(CallAt(0)[2])) >= 2
    /\ (/\ EndsWith(<<"return", "return", "take", "take">>)
        /\ CallAt(3)[2] = CallAt(2)[2]) =>
           /\ CallAt(1)[2] = CallAt(2)[2]
           /\ CallAt(0)[2] = CallAt(2)[2]
           /\ CallAt(1)[3] # CallAt(0)[3] =>
                  /\ Holds(CallAt(1)[3], ValueOf(CallAt(2)[2]))
                  /\ Holds(CallAt(0)[3], ValueOf(CallAt(2)[2]))

\* one take of 1081, two returns of it, then two workers take: both hold 1081
C22_Witness ==
    /\ Len(calls) = 5
    /\ calls[1] = <<"take", Some(1081), 1>>
    /\ calls[2] = <<"return", Some(1081), 1>>
    /\ calls[3] = <<"return", Some(1081), 1>>
    /\ calls[4][1] = "take"
    /\ calls[5][1] = "take"
    /\ Holds(1, 1081)
    /\ Holds(2, 1081)

\* C23: no thread holds the pool lock and the registry lock at the same time, and
\* no thread is at a blocking operation (terminating a process, writing the
\* partial-results file) while a lock is held; cleanup_processes has released the
\* registry lock before it terminates a process or calls return_port.
C23_LockDiscipline ==
    /\ ~(active_lock # "free" /\ port_lock # "free")
    /\ (InFrame("kill") \/ InFrame("save")) =>
           (active_lock = "free" /\ port_lock = "free")
    /\ InFrame("return") => active_lock = "free"

\* C24: the partial-results file is never the final output: whatever the intended
\* output path, with the expected extension or without, every path
\* save_partial_results opens for writing differs from it.
C24_PartialIsSibling ==
    \A w \in written : w.path # output_path_global

\* C25: save_partial_results writes only after a signal was delivered and only with
\* a non-empty available_keys and an output path set; a run that ends by normal
\* exit has written nothing; a write that fails leaves signal_handler where a
\* successful one does, at sys.exit.
C25_PartialOnlyOnInterrupt ==
    /\ [](written # {} =>
              /\ signals > 0
              /\ interrupted
              /\ available_keys # << >>
              /\ output_path_global # << >>)
    /\ []((phase = "dead" /\ signals = 0) => written = {})
    /\ [][SavePartial => /\ stack' # << >>
                         /\ stack'[Len(stack')].fn = "signal_handler"
                         /\ stack'[Len(stack')].pc = "exit"]_vars

\* interrupted with two keys found: the write failed and the process has exited
C25_Witness ==
    /\ phase = "dead"
    /\ available_keys = <<"k1", "k2">>
    /\ written = {Written(<<"o", "_", "p", "a", "r", "t", "i", "a", "l", ".", "t", "x", "t">>,
                          <<"k1", "LF", "k2">>, TRUE)}

====
